---- MODULE Spec2Model ----
(***************************************************************************)
(* PropEase tenant portal: the client-side session flow of Login and       *)
(* Dashboard (src/src/Dashboard.tsx) under the routing table of App        *)
(* (src/src/App.tsx).                                                      *)
(*                                                                         *)
(* A handler of the source is modelled as the sequence of side-effect      *)
(* calls it makes (setItem, removeItem, navigate, setData, setLoading,     *)
(* setError, axios.get, axios.post), run in order by Run; the render that  *)
(* React performs once the handler has returned is Commit.  A state setter *)
(* of a component that is no longer mounted is a no-op (React), while      *)
(* localStorage and navigate() act whether or not the component that       *)
(* issued the request is still mounted.                                    *)
(***************************************************************************)
EXTENDS Integers, Sequences, FiniteSets, TLC

\* ---- bounds of the model -------------------------------------------------
MaxInflight == 2      \* network requests pending at the same time
MaxHist == 3          \* entries kept in the session history

\* ---- values --------------------------------------------------------------
Null == "<null>"              \* JS null: localStorage.getItem of a missing key, useState(null)
Undefined == "<undefined>"    \* JS undefined: a field the response body lacks

Entry == "/"
DashboardRoute == "/dashboard"
Routes == {Entry, DashboardRoute}

Tokens == {"abc", "xyz"}
SlotValues == {Null, "", "undefined"} \cup Tokens

LoadError == "Could not load data. Ensure your Laravel server is running."
Fallback == "Something went wrong."
ServerMessage == "Invalid credentials"

\* bodies a 2xx answer of GET /tenant/dashboard can carry: a TenantProfile,
\* a JSON object without active_leases, an empty body
Bodies == {"profile", "object", "empty"}

VARIABLES
    slot,        \* localStorage['token']
    hist,        \* session history: sequence of routes
    idx,         \* position in hist; the current route is hist[idx]
    dashboard,   \* state of the mounted Dashboard: data, loading, error, TOKEN, effectPending
    login,       \* state of the mounted Login: error, loading
    inflight,    \* pending requests: request -> how many
    crashed,     \* an exception left render uncaught: React unmounted the tree
    issued,      \* profile requests issued by the current Dashboard activation
    last         \* the handler that ran last: op, live, status, calls

vars == <<slot, hist, idx, dashboard, login, inflight, crashed, issued, last>>

route == hist[idx]

\* ---- JS conversions ------------------------------------------------------
\* truthiness of a string | null | undefined
Truthy(v) == v \notin {Null, Undefined, ""}

\* localStorage.setItem stores String(value)
ToStr(v) == IF v = Undefined THEN "undefined" ELSE IF v = Null THEN "null" ELSE v

\* ---- requests ------------------------------------------------------------
LoginReq(l) == [kind |-> "login", tok |-> Null, live |-> l]
FetchReq(t, l) == [kind |-> "fetch", tok |-> t, live |-> l]
Reqs == {LoginReq(l) : l \in BOOLEAN}
          \cup {FetchReq(t, l) : t \in SlotValues, l \in BOOLEAN}

RECURSIVE SumOver(_, _)
SumOver(f, S) ==
    IF S = {} THEN 0
    ELSE LET x == CHOOSE y \in S : TRUE IN f[x] + SumOver(f, S \ {x})

Total(f) == SumOver(f, Reqs)

NoRequests == [r \in Reqs |-> 0]
Add(f, r) == [f EXCEPT ![r] = @ + 1]
Remove(f, r) == [f EXCEPT ![r] = @ - 1]

\* every pending request now belongs to an unmounted component
Stale(f) ==
    [r \in Reqs |-> IF r.live THEN 0
                    ELSE f[r] + f[[r EXCEPT !.live = TRUE]]]

\* ---- components ----------------------------------------------------------
\* useState initial values, Dashboard.tsx:21-23, and TOKEN of line 29
DashboardMount(t) ==
    [data |-> Null, loading |-> TRUE, error |-> Null, TOKEN |-> t, effectPending |-> TRUE]
DashboardUnmounted ==
    [data |-> Null, loading |-> TRUE, error |-> Null, TOKEN |-> Null, effectPending |-> FALSE]
\* useState initial values, Dashboard.tsx:181-182
LoginMount == [error |-> Null, loading |-> FALSE]
LoginUnmounted == [error |-> Null, loading |-> FALSE]

\* which component the router shows, App.tsx:8-14
Mounted == IF crashed THEN "None" ELSE IF route = Entry THEN "Login" ELSE "Dashboard"

\* what Dashboard renders, Dashboard.tsx:64-66 and 117
View(d) ==
    IF d.loading THEN "Loading"
    ELSE IF Truthy(d.error) THEN "Error"
    ELSE IF d.data \in {Null, "empty"} THEN "Blank"
    ELSE IF d.data = "profile" THEN "Main"
    ELSE "Throw"     \* data.active_leases is undefined: .length throws

\* ---- the interpreter of handler bodies --------------------------------------
Call(f, a) == [f |-> f, a |-> a]

St == [slot |-> slot, hist |-> hist, idx |-> idx, dashboard |-> dashboard,
       login |-> login, inflight |-> inflight, issued |-> issued]

\* history.push of react-router's navigate(): entries after the current one are
\* dropped, the new one becomes current; the oldest entry falls out at MaxHist
Push(st, to) ==
    LET t == SubSeq(st.hist, 1, st.idx) \o <<to>> IN
    IF Len(t) > MaxHist
    THEN [st EXCEPT !.hist = Tail(t), !.idx = MaxHist]
    ELSE [st EXCEPT !.hist = t, !.idx = Len(t)]

\* one call of a handler owned by component `owner`; `live` says whether that
\* component instance is still mounted (React drops state updates otherwise)
Apply(c, st, owner, live) ==
    CASE c.f = "setItem" -> [st EXCEPT !.slot = ToStr(c.a)]
      [] c.f = "removeItem" -> [st EXCEPT !.slot = Null]
      [] c.f = "navigate" -> Push(st, c.a)
      [] c.f = "get" -> [st EXCEPT !.inflight = Add(@, FetchReq(c.a, TRUE)),
                                   !.issued = @ + 1]
      [] c.f = "post" -> [st EXCEPT !.inflight = Add(@, LoginReq(TRUE))]
      [] c.f = "setData" ->
            IF live THEN [st EXCEPT !.dashboard.data = c.a] ELSE st
      [] c.f = "setLoading" ->
            IF ~live THEN st
            ELSE IF owner = "Dashboard"
                 THEN [st EXCEPT !.dashboard.loading = (c.a = "true")]
                 ELSE [st EXCEPT !.login.loading = (c.a = "true")]
      [] c.f = "setError" ->
            IF ~live THEN st
            ELSE IF owner = "Dashboard"
                 THEN [st EXCEPT !.dashboard.error = c.a]
                 ELSE [st EXCEPT !.login.error = c.a]

RECURSIVE Run(_, _, _, _)
Run(calls, st, owner, live) ==
    IF calls = <<>> THEN st
    ELSE Run(Tail(calls), Apply(Head(calls), st, owner, live), owner, live)

\* room for the request a pending effect is about to issue
CapOK(d, f) ==
    Total(f) + (IF d.effectPending /\ Truthy(d.TOKEN) THEN 1 ELSE 0) <= MaxInflight

\* the render React performs after a handler returned with program state st
Commit(st, rec) ==
    LET r2 == st.hist[st.idx]
        \* Dashboard.tsx:29 runs on every render; the effect's deps are [navigate, TOKEN]
        d == [st.dashboard EXCEPT !.TOKEN = st.slot,
                                  !.effectPending = @ \/ st.slot # st.dashboard.TOKEN]
    IN
    /\ slot' = st.slot
    /\ hist' = st.hist
    /\ idx' = st.idx
    /\ last' = rec
    /\ IF crashed
       THEN /\ crashed' = TRUE
            /\ dashboard' = DashboardUnmounted
            /\ login' = LoginUnmounted
            /\ inflight' = st.inflight
            /\ issued' = 0
       ELSE IF r2 # route
       THEN /\ crashed' = FALSE
            /\ dashboard' = IF r2 = DashboardRoute THEN DashboardMount(st.slot)
                            ELSE DashboardUnmounted
            /\ login' = IF r2 = Entry THEN LoginMount ELSE LoginUnmounted
            /\ inflight' = Stale(st.inflight)
            /\ issued' = 0
       ELSE IF r2 = Entry
       THEN /\ crashed' = FALSE
            /\ dashboard' = DashboardUnmounted
            /\ login' = st.login
            /\ inflight' = st.inflight
            /\ issued' = 0
       ELSE IF View(d) = "Throw"
       THEN /\ crashed' = TRUE
            /\ dashboard' = DashboardUnmounted
            /\ login' = LoginUnmounted
            /\ inflight' = Stale(st.inflight)
            /\ issued' = 0
       ELSE /\ crashed' = FALSE
            /\ dashboard' = d
            /\ login' = LoginUnmounted
            /\ inflight' = st.inflight
            /\ issued' = st.issued
    /\ CapOK(dashboard', inflight')

Rec(op, live, status, calls) ==
    [op |-> op, live |-> live, status |-> status, calls |-> calls]

\* React runs a pending passive effect before it handles anything else
Quiescent == ~dashboard.effectPending

\* ---- handlers of the source -----------------------------------------------
\* Login.handleLogin up to the await
handleLoginStart ==
    <<Call("setLoading", "true"), Call("setError", Null), Call("post", Null)>>

\* answers of POST /login
LoginResponses ==
    {[status |-> "2xx", data |-> "object", token |-> t, message |-> Undefined] :
        t \in Tokens \cup {"", Undefined}}
      \cup {[status |-> "2xx", data |-> Null, token |-> Undefined, message |-> Undefined]}
      \cup {[status |-> "422", data |-> "object", token |-> Undefined, message |-> m] :
              m \in {ServerMessage, Undefined}}
      \cup {[status |-> "network", data |-> Undefined, token |-> Undefined,
             message |-> Undefined]}

\* the try block completes: a 2xx answer whose body is not null
\* (response.data.token of a null body throws a TypeError into the catch)
LoginSucceeds(resp) == resp.status = "2xx" /\ resp.data # Null

\* err.response?.data?.message
ErrMessage(resp) == IF resp.status = "422" THEN resp.message ELSE Undefined

\* mutant: the token is not stored before navigating
handleLoginResumeNoStore(resp) ==
    IF LoginSucceeds(resp)
    THEN <<Call("navigate", DashboardRoute), Call("setLoading", "false")>>
    ELSE <<Call("setError", IF Truthy(ErrMessage(resp)) THEN ErrMessage(resp)
                            ELSE Fallback),
           Call("setLoading", "false")>>

\* mutant: no finally block, the busy flag is reset on success only
handleLoginResumeNoFinally(resp) ==
    IF LoginSucceeds(resp)
    THEN <<Call("setItem", resp.token), Call("navigate", DashboardRoute),
           Call("setLoading", "false")>>
    ELSE <<Call("setError", IF Truthy(ErrMessage(resp)) THEN ErrMessage(resp)
                            ELSE Fallback)>>

\* Login.handleLogin after the await
handleLoginResume(resp) ==
    IF LoginSucceeds(resp)
    THEN <<Call("setItem", resp.token), Call("navigate", DashboardRoute),
           Call("setLoading", "false")>>
    ELSE <<Call("setError", IF Truthy(ErrMessage(resp)) THEN ErrMessage(resp)
                            ELSE Fallback),
           Call("setLoading", "false")>>

\* mutant: the gate redirects but does not return
useEffectBodyNoReturn(TOKEN) ==
    IF ~Truthy(TOKEN) THEN <<Call("navigate", Entry), Call("get", TOKEN)>>
    ELSE <<Call("get", TOKEN)>>

\* the body of Dashboard's useEffect
useEffectBody(TOKEN) ==
    IF ~Truthy(TOKEN) THEN <<Call("navigate", Entry)>>
    ELSE <<Call("get", TOKEN)>>

\* answers of GET /tenant/dashboard
FetchResponses ==
    {[status |-> "2xx", body |-> b] : b \in Bodies}
      \cup {[status |-> s, body |-> Undefined] : s \in {"401", "500", "network"}}

thenHandler(resp) ==
    <<Call("setData", resp.body), Call("setLoading", "false")>>

\* mutant: 401 is not told apart from the other failures
catchHandlerNoStatusCheck(resp) ==
    <<Call("setError", LoadError), Call("setLoading", "false")>>

\* mutant: every failure clears the credential and redirects
catchHandlerAlwaysClear(resp) ==
    <<Call("removeItem", Null), Call("navigate", Entry)>>

\* Dashboard's .catch handler
catchHandler(resp) ==
    IF resp.status = "401"
    THEN <<Call("removeItem", Null), Call("navigate", Entry)>>
    ELSE <<Call("setError", LoadError), Call("setLoading", "false")>>

signOutClick == <<Call("removeItem", Null), Call("navigate", Entry)>>

\* ---- the state machine ------------------------------------------------------
Init ==
    /\ slot \in SlotValues
    /\ hist \in {<<r>> : r \in Routes}
    /\ idx = 1
    /\ crashed = FALSE
    /\ dashboard = IF hist[1] = DashboardRoute THEN DashboardMount(slot)
                   ELSE DashboardUnmounted
    /\ login = IF hist[1] = Entry THEN LoginMount ELSE LoginUnmounted
    /\ inflight = NoRequests
    /\ issued = 0
    /\ last = Rec("load", TRUE, "-", <<>>)

\* the Sign In button, enabled while the form is not busy
Submit ==
    /\ Mounted = "Login"
    /\ ~login.loading
    /\ Commit(Run(handleLoginStart, St, "Login", TRUE),
              Rec("submit", TRUE, "-", handleLoginStart))

\* the answer resp to a login request arrives; l: its form is still mounted
LoginResponseOf(l, resp) ==
    /\ inflight[LoginReq(l)] > 0
    /\ Quiescent
    /\ Commit(Run(handleLoginResume(resp),
                  [St EXCEPT !.inflight = Remove(@, LoginReq(l))], "Login", l),
              Rec(IF LoginSucceeds(resp) THEN "loginOk" ELSE "loginFail",
                  l, resp.status, handleLoginResume(resp)))

LoginResponse ==
    \E l \in BOOLEAN, resp \in LoginResponses : LoginResponseOf(l, resp)

DashboardEffect ==
    /\ Mounted = "Dashboard"
    /\ dashboard.effectPending
    /\ Commit(Run(useEffectBody(dashboard.TOKEN),
                  [St EXCEPT !.dashboard.effectPending = FALSE], "Dashboard", TRUE),
              Rec("useEffect", TRUE, "-", useEffectBody(dashboard.TOKEN)))

\* the promise chain of axios.get: .then on a 2xx answer, .catch otherwise
fetchHandler(resp) ==
    IF resp.status = "2xx" THEN thenHandler(resp) ELSE catchHandler(resp)

\* the answer resp to profile request r arrives
FetchResponseOf(r, resp) ==
    /\ r.kind = "fetch"
    /\ inflight[r] > 0
    /\ Quiescent
    /\ Commit(Run(fetchHandler(resp), [St EXCEPT !.inflight = Remove(@, r)],
                  "Dashboard", r.live),
              Rec(IF resp.status = "2xx" THEN "then" ELSE "catch",
                  r.live, resp.status, fetchHandler(resp)))

FetchResponse ==
    \E r \in Reqs, resp \in FetchResponses : FetchResponseOf(r, resp)

\* the Sign Out button is part of the main view only
SignOut ==
    /\ Mounted = "Dashboard"
    /\ Quiescent
    /\ View(dashboard) = "Main"
    /\ Commit(Run(signOutClick, St, "Dashboard", TRUE),
              Rec("signOut", TRUE, "-", signOutClick))

\* the browser's back and forward buttons: another entry of the session history
UserNavigate ==
    \E i \in 1..Len(hist) :
        /\ i # idx
        /\ Quiescent
        /\ Commit([St EXCEPT !.idx = i], Rec("popstate", TRUE, "-", <<>>))

\* the browser's reload: pending requests die with the page, the slot and the
\* history survive, the current route is mounted afresh
Reload ==
    /\ Quiescent
    /\ slot' = slot
    /\ hist' = hist
    /\ idx' = idx
    /\ crashed' = FALSE
    /\ dashboard' = IF route = DashboardRoute THEN DashboardMount(slot)
                    ELSE DashboardUnmounted
    /\ login' = IF route = Entry THEN LoginMount ELSE LoginUnmounted
    /\ inflight' = NoRequests
    /\ issued' = 0
    /\ last' = Rec("load", TRUE, "-", <<>>)

Next ==
    \/ Submit
    \/ LoginResponse
    \/ DashboardEffect
    \/ FetchResponse
    \/ SignOut
    \/ UserNavigate
    \/ Reload

Spec == Init /\ [][Next]_vars

\* ---- helpers of the properties -----------------------------------------------
CallsOf(calls, f) == {i \in DOMAIN calls : calls[i].f = f}

\* one history.push to route `to` took place in the step
PushedOnce(to) ==
    /\ hist' = Push(St, to).hist
    /\ idx' = Push(St, to).idx

LoginFailure(resp) == resp.status # "2xx"

\* the dashboard screen as the state machine of its activation
Phase ==
    IF Mounted # "Dashboard" THEN "None"
    ELSE IF issued = 0 THEN "Idle"
    ELSE IF View(dashboard) = "Loading" THEN "Loading"
    ELSE IF View(dashboard) = "Error" THEN "Failed"
    ELSE "Loaded"

\* ---- C1 ------------------------------------------------------------------------
\* C1: a run of the dashboard's session gate with TOKEN absent (null) or empty
\* issues no request and leaves the route at the entry route; a run of the gate
\* either redirects or issues the profile request, never both.
C1_SessionGate ==
    [][DashboardEffect =>
          /\ dashboard.TOKEN \in {Null, ""} =>
                /\ route' = Entry
                /\ Total(inflight') = Total(inflight)
                /\ CallsOf(last'.calls, "get") = {}
          /\ (Total(inflight') = Total(inflight) + 1) # (route' = Entry)]_vars

C1_Witness ==
    /\ last.op = "useEffect"
    /\ slot = ""
    /\ route = Entry
    /\ Mounted = "Login"
    /\ Total(inflight) = 0

\* ---- C2 ------------------------------------------------------------------------
\* C2: a login answer that is a success carrying a token leaves that token in the
\* slot, pushes '/dashboard' exactly once, and the dashboard rendered by that
\* navigation reads the new token (the write precedes the navigation).
C2_LoginSuccess ==
    [][\A l \in BOOLEAN, resp \in LoginResponses :
          (LoginResponseOf(l, resp) /\ LoginSucceeds(resp) /\ resp.token # Undefined) =>
              /\ slot' = resp.token
              /\ route' = DashboardRoute
              /\ PushedOnce(DashboardRoute)
              /\ Cardinality(CallsOf(last'.calls, "navigate")) = 1
              /\ \A i \in CallsOf(last'.calls, "setItem") :
                    \A j \in CallsOf(last'.calls, "navigate") : i < j
              /\ Mounted' = "Dashboard" => dashboard'.TOKEN = resp.token]_vars

C2_Witness ==
    /\ last.op = "loginOk"
    /\ slot = "abc"
    /\ route = DashboardRoute
    /\ Mounted = "Dashboard"
    /\ dashboard.TOKEN = "abc"

\* ---- C3 ------------------------------------------------------------------------
\* C3 as stated: after every failed login answer the busy flag is false, an error
\* message is displayed and the route is the entry route.
C3_Original ==
    [][\A l \in BOOLEAN, resp \in LoginResponses :
          (LoginResponseOf(l, resp) /\ LoginFailure(resp)) =>
              /\ Mounted' = "Login"
              /\ ~login'.loading
              /\ Truthy(login'.error)
              /\ route' = Entry]_vars

\* C3 amended: a failed login answer never navigates; when the form that
\* submitted is still mounted its busy flag ends false, the server's message or
\* the fallback is displayed and the route stays the entry route; when that form
\* was dismissed the failure is discarded and no screen changes.
C3_LoginFailure ==
    [][\A l \in BOOLEAN, resp \in LoginResponses :
          (LoginResponseOf(l, resp) /\ LoginFailure(resp)) =>
              /\ hist' = hist /\ idx' = idx
              /\ slot' = slot
              /\ l => /\ Mounted' = "Login"
                      /\ route' = Entry
                      /\ ~login'.loading
                      /\ login'.error \in {ServerMessage, Fallback}
              /\ ~l => /\ login' = login
                       /\ dashboard' = dashboard]_vars

C3_Witness ==
    /\ last.op = "loginFail"
    /\ last.live
    /\ last.status \in {"422", "network"}
    /\ login.error = Fallback
    /\ ~login.loading
    /\ route = Entry

\* ---- C4 ------------------------------------------------------------------------
\* C4: a 401 answer to the profile request clears the slot, makes the route the
\* entry route, and never sets the dashboard's error message.
C4_Rejection ==
    [][\A r \in Reqs, resp \in FetchResponses :
          (FetchResponseOf(r, resp) /\ resp.status = "401") =>
              /\ slot' = Null
              /\ route' = Entry
              /\ CallsOf(last'.calls, "setError") = {}
              /\ ~Truthy(dashboard'.error)]_vars

C4_Witness ==
    /\ last.op = "catch"
    /\ last.status = "401"
    /\ last.live
    /\ slot = Null
    /\ route = Entry
    /\ Mounted = "Login"

\* ---- C5 ------------------------------------------------------------------------
\* C5: every answer to the profile request of the mounted dashboard that is
\* neither a TenantProfile nor a 401 ends with the static error message shown,
\* loading cleared, no further request issued and no exception out of render.
C5_LoadFailure ==
    [][\A r \in Reqs, resp \in FetchResponses :
          (FetchResponseOf(r, resp) /\ r.live
              /\ resp.status # "401"
              /\ ~(resp.status = "2xx" /\ resp.body = "profile")) =>
              /\ ~crashed'
              /\ Mounted' = "Dashboard"
              /\ View(dashboard') = "Error"
              /\ dashboard'.error = LoadError
              /\ ~dashboard'.loading
              /\ Total(inflight') = Total(inflight) - 1]_vars

\* ---- C6 ------------------------------------------------------------------------
\* C6: in every state of the mounted dashboard (Loading, Loaded, Failed) the
\* sign-out action can be taken.
C6_SignOutAnyState ==
    (Mounted = "Dashboard" /\ Quiescent) => ENABLED SignOut

\* ---- C7 ------------------------------------------------------------------------
\* C7: the answer to a profile request whose dashboard was dismissed is discarded:
\* it changes neither the screens' state, nor the slot, nor the route.
C7_LateResponseDiscarded ==
    [][\A r \in Reqs, resp \in FetchResponses :
          (FetchResponseOf(r, resp) /\ ~r.live) =>
              /\ slot' = slot
              /\ hist' = hist /\ idx' = idx
              /\ dashboard' = dashboard
              /\ login' = login]_vars

\* ---- C8 ------------------------------------------------------------------------
\* C8: an activation with a credential issues exactly one profile request and
\* moves Idle -> Loading -> one of Loaded, Redirected, Failed; Failed and Loaded
\* make no further transition until the user leaves (sign-out, back/forward,
\* reload).
C8_StateMachine ==
    [][/\ Mounted' = "Dashboard" => issued' <= 1
       /\ (DashboardEffect /\ Truthy(dashboard.TOKEN)) =>
             (Phase = "Idle" /\ Phase' = "Loading" /\ issued' = 1)
       /\ (Phase = "Loading" /\ Phase' # "Loading" /\ last'.op \notin {"popstate", "load"}) =>
             \/ Phase' \in {"Loaded", "Failed"}
             \/ Phase' = "None" /\ route' = Entry
       /\ Phase \in {"Loaded", "Failed"} =>
             \/ Phase' = Phase /\ dashboard' = dashboard
             \/ last'.op \in {"signOut", "popstate", "load"}]_vars

\* ---- C9 ------------------------------------------------------------------------
\* C9: at most one network operation is in flight.
C9_AtMostOneInFlight == Total(inflight) <= 1

\* ---- C10 -----------------------------------------------------------------------
\* C10: the slot is written only by a successful login answer and cleared only by
\* sign-out or by a 401 answer to the profile request; every other step leaves it
\* unchanged.
C10_CredentialLifetime ==
    [][/\ (slot' # slot /\ slot' # Null) => (LoginResponse /\ last'.op = "loginOk")
       /\ (slot' # slot /\ slot' = Null) =>
             \/ SignOut
             \/ FetchResponse /\ last'.op = "catch" /\ last'.status = "401"
       /\ (DashboardEffect \/ Submit \/ UserNavigate \/ Reload) => slot' = slot
       /\ (LoginResponse /\ last'.op = "loginFail") => slot' = slot
       /\ (FetchResponse /\ last'.status # "401") => slot' = slot]_vars

C10_Witness ==
    /\ last.op = "catch"
    /\ last.status = "500"
    /\ last.live
    /\ slot \in Tokens
    /\ View(dashboard) = "Error"

====
